---- MODULE Spec2Model ----
(***************************************************************************)
(* Model of seller.py (Ozon) and market.py (Yandex Market): the stock and  *)
(* price synchronisation of a vendor inventory sheet into two marketplace  *)
(* seller APIs.                                                            *)
(*                                                                         *)
(* Texts read from the inventory sheet (quantity and price cells) are      *)
(* sequences of one-character strings, so that parsing and normalisation   *)
(* are computed character by character as Python computes them.  Product   *)
(* identifiers (offer_id / shopSku / "Код") are opaque keys, modelled by   *)
(* small naturals; the code only compares them for equality.               *)
(***************************************************************************)
EXTENDS Integers, Sequences, FiniteSets, TLC

VARIABLES
    \* ---- divide(lst, n) applied to drawn arguments
    d_lst, d_n, d_out, d_pc,
    \* ---- price_conversion / create_prices applied to one drawn price text
    p_module, p_text, p_out, p_pc,
    \* ---- create_stocks called twice by one caller on the same list object
    r_module,        \* "seller" or "market"
    r_rows,          \* watch_remnants
    r_ids0,          \* the contents of offer_ids when the first call starts
    r_ids,           \* the caller's offer_ids list (create_stocks mutates it)
    r_now,           \* utcnow(), to the second
    r_first,         \* what the first call returned
    r_second,        \* what the second call returned
    r_pc,
    \* ---- get_offer_ids paging through one provider's catalog
    g_module,        \* "seller" (Ozon) or "market" (Yandex)
    g_catalog,       \* the provider's identifiers, in listing order
    g_total,         \* the "total" Ozon reports with every page
    g_cursor,        \* last_id / page: how far into the catalog it points
    g_product_list,  \* product_list
    g_requests,      \* calls of get_product_list so far
    g_offer_ids,     \* what get_offer_ids returned
    g_pc,
    \* ---- one run of seller.main or of market.main
    m_program,       \* "seller" or "market"
    m_sheet,         \* the rows the vendor's sheet holds
    m_catalog,       \* campaign -> the identifiers the marketplace lists
    m_pc,            \* the statement main is at
    m_campaign,      \* "ozon", or the campaign market.main is on
    m_watch_remnants,
    m_offer_ids,
    m_stocks,
    m_prices,
    m_batches,       \* what is left of list(divide(...)) in the running loop
    m_sent,          \* every update_stocks / update_price call, in order
    m_result,        \* how main ended
    \* ---- create_stocks and create_prices applied to one snapshot
    u_module,        \* "seller" or "market"
    u_rows,          \* watch_remnants
    u_ids,           \* the identifier list both are given (each its own copy)
    u_stocks,        \* what create_stocks returned
    u_prices,        \* what create_prices returned
    u_done           \* which of the two calls have been made

divVars   == <<d_lst, d_n, d_out, d_pc>>
priceVars == <<p_module, p_text, p_out, p_pc>>
recVars   == <<r_module, r_rows, r_ids0, r_ids, r_now, r_first, r_second, r_pc>>
pageVars  == <<g_module, g_catalog, g_total, g_cursor, g_product_list,
               g_requests, g_offer_ids, g_pc>>
mainVars  == <<m_program, m_sheet, m_catalog, m_pc, m_campaign,
               m_watch_remnants, m_offer_ids, m_stocks, m_prices, m_batches,
               m_sent, m_result>>
pairVars  == <<u_module, u_rows, u_ids, u_stocks, u_prices, u_done>>
vars      == <<divVars, priceVars, recVars, pageVars, mainVars, pairVars>>

----------------------------------------------------------------------------
(* Bounds of the model *)

MaxLen == 4          \* longest list handed to divide
MaxN == 3            \* largest |n| handed to divide
MaxPriceLen == 3     \* longest enumerated price text
NumCodes == 2        \* distinct product identifiers
MaxRows == 2         \* most inventory rows of a sheet
MaxIds == 3          \* longest identifier list of a marketplace
MaxPage == 2         \* most items the provider puts in one page
MaxRequests == 4     \* page requests followed before the model stops looking
MaxSheet == 1        \* most rows of the sheet in a run of main
MaxCatalog == 2      \* longest enumerated catalog in a run of main
BulkExtra == 1       \* a bulk catalog exceeds the stock batch size by this

----------------------------------------------------------------------------
(* Python built-ins used by the code *)

Min(a, b) == IF a <= b THEN a ELSE b

\* seqs of length <= k over S
SeqsUpTo(S, k) == UNION {[1..m -> S] : m \in 0..k}

\* x in lst
InList(x, lst) == \E i \in 1..Len(lst) : lst[i] = x

\* range(start, stop, step): the values it yields, or ValueError for step = 0
range(start, stop, step) ==
    IF step = 0 THEN [raised |-> TRUE, values |-> <<>>]
    ELSE LET count == IF step > 0
                      THEN (IF stop > start
                            THEN (stop - start + step - 1) \div step ELSE 0)
                      ELSE (IF start > stop
                            THEN (start - stop - step - 1) \div (-step) ELSE 0)
         IN [raised |-> FALSE,
             values |-> [k \in 1..count |-> start + (k - 1) * step]]

\* lst[i:j] for 0 <= i, 0 <= j (Python clamps the stop to len(lst))
Slice(lst, i, j) == SubSeq(lst, i + 1, Min(j, Len(lst)))

Digits == {"0", "1", "2", "3", "4", "5", "6", "7", "8", "9"}

IsDigit(c) == c \in Digits

DigitVal(c) ==
    CASE c = "0" -> 0 [] c = "1" -> 1 [] c = "2" -> 2 [] c = "3" -> 3
      [] c = "4" -> 4 [] c = "5" -> 5 [] c = "6" -> 6 [] c = "7" -> 7
      [] c = "8" -> 8 [] c = "9" -> 9

RECURSIVE DecimalValue(_)
DecimalValue(text) ==
    IF text = <<>> THEN 0
    ELSE 10 * DecimalValue(SubSeq(text, 1, Len(text) - 1))
         + DigitVal(text[Len(text)])

\* int(text) for the texts of the model: a non-empty run of decimal digits
\* gives its value, anything else raises ValueError
int(text) ==
    IF text # <<>> /\ \A i \in 1..Len(text) : IsDigit(text[i])
    THEN [raised |-> FALSE, value |-> DecimalValue(text)]
    ELSE [raised |-> TRUE, value |-> 0]

----------------------------------------------------------------------------
(* seller.divide: consumed in full, as list(divide(lst, n)) does.  `chunks` *)
(* are the slices yielded before the generator ended or raised.            *)

\* a faulty variant: every slice stops one item early
divide_short(lst, n) ==
    LET r == range(0, Len(lst), n)
    IN [raised |-> r.raised,
        chunks |-> [k \in 1..Len(r.values) |->
                       Slice(lst, r.values[k], r.values[k] + n - 1)]]

divide(lst, n) ==
    LET r == range(0, Len(lst), n)
    IN [raised |-> r.raised,
        chunks |-> [k \in 1..Len(r.values) |->
                       Slice(lst, r.values[k], r.values[k] + n)]]

DivItems == {1, 2}

DivIdle ==
    /\ d_lst = <<>>
    /\ d_n = 1
    /\ d_out = [raised |-> FALSE, chunks |-> <<>>]
    /\ d_pc = "idle"

\* list(divide(d_lst, d_n))
ConsumeDivide ==
    /\ d_pc = "call"
    /\ d_out' = divide(d_lst, d_n)
    /\ d_pc' = IF d_out'.raised THEN "raised" ELSE "returned"
    /\ UNCHANGED <<d_lst, d_n>>
    /\ UNCHANGED <<priceVars, recVars, pageVars, mainVars, pairVars>>

----------------------------------------------------------------------------
(* seller.price_conversion, and the price value each create_prices builds  *)
(* from it                                                                 *)

FirstDot(text) ==
    IF \E i \in 1..Len(text) : text[i] = "."
    THEN CHOOSE i \in 1..Len(text) :
             text[i] = "." /\ \A j \in 1..(i - 1) : text[j] # "."
    ELSE Len(text) + 1

\* price.split(".")[0]
SplitDotFirst(text) == SubSeq(text, 1, FirstDot(text) - 1)

\* a faulty variant: the fractional part is not cut off
price_conversion_nosplit(price) == SelectSeq(price, IsDigit)

\* re.sub("[^0-9]", "", price.split(".")[0])
price_conversion(price) == SelectSeq(SplitDotFirst(price), IsDigit)

\* seller.create_prices: "price": price_conversion(watch.get("Цена"))
seller_price_field(price) ==
    [raised |-> FALSE, text |-> price_conversion(price), value |-> 0]

\* market.create_prices: "value": int(price_conversion(watch.get("Цена")))
market_price_field(price) ==
    LET v == int(price_conversion(price))
    IN [raised |-> v.raised, text |-> <<>>, value |-> v.value]

PriceAlphabet == {"5", "0", ".", "'", "p"}

\* "5'990.00 руб." (the Cyrillic letters stand as "p", "y", "b")
PriceExample ==
    <<"5", "'", "9", "9", "0", ".", "0", "0", " ", "p", "y", "b", ".">>

PriceTexts == SeqsUpTo(PriceAlphabet, MaxPriceLen) \cup {PriceExample}

NoPrice == [raised |-> FALSE, text |-> <<>>, value |-> 0]

PriceIdle ==
    /\ p_module = "seller"
    /\ p_text = <<>>
    /\ p_out = NoPrice
    /\ p_pc = "idle"

\* the price of the record create_prices builds for a matched row
BuildPrice ==
    /\ p_pc = "call"
    /\ p_out' = IF p_module = "seller" THEN seller_price_field(p_text)
                ELSE market_price_field(p_text)
    /\ p_pc' = IF p_out'.raised THEN "raised" ELSE "returned"
    /\ UNCHANGED <<p_module, p_text>>
    /\ UNCHANGED <<divVars, recVars, pageVars, mainVars, pairVars>>

----------------------------------------------------------------------------
(* create_stocks of seller.py and of market.py.  The two bodies are the    *)
(* same loops and differ in the shape of the record they append.           *)

Codes == 1..NumCodes

GT10 == <<">", "1", "0">>
ONE == <<"1">>

\* the quantity cells of the model: ">10", "1", "5", "12" and a cell int()
\* rejects
QtyTexts == {GT10, ONE, <<"5">>, <<"1", "2">>, <<"x">>}

\* lst.remove(x), for x in lst: the first occurrence goes
remove(lst, x) ==
    LET i == CHOOSE j \in 1..Len(lst) :
                 lst[j] = x /\ \A k \in 1..(j - 1) : lst[k] # x
    IN SubSeq(lst, 1, i - 1) \o SubSeq(lst, i + 1, Len(lst))

\* a faulty variant: the `elif count == "1"` branch is missing
stock_count_keeps_one(count) ==
    IF count = GT10 THEN [raised |-> FALSE, value |-> 100]
    ELSE int(count)

\* if count == ">10": 100 / elif count == "1": 0 / else: int(...)
stock_count(count) ==
    IF count = GT10 THEN [raised |-> FALSE, value |-> 100]
    ELSE IF count = ONE THEN [raised |-> FALSE, value |-> 0]
    ELSE int(count)

\* for watch in watch_remnants: ... ; `matched` collects <<code, stock>> for
\* every append, `ids` is offer_ids as the removals leave it.  A ValueError
\* of int() ends the call with the removals made so far.
RECURSIVE stocks_loop(_, _, _, _)
stocks_loop(watch_remnants, i, matched, ids) ==
    IF i > Len(watch_remnants)
    THEN [raised |-> FALSE, matched |-> matched, offer_ids |-> ids]
    ELSE LET watch == watch_remnants[i]
         IN IF InList(watch.code, ids)
            THEN LET stock == stock_count(watch.qty)
                 IN IF stock.raised
                    THEN [raised |-> TRUE, matched |-> matched,
                          offer_ids |-> ids]
                    ELSE stocks_loop(watch_remnants, i + 1,
                                     Append(matched,
                                            <<watch.code, stock.value>>),
                                     remove(ids, watch.code))
            ELSE stocks_loop(watch_remnants, i + 1, matched, ids)

\* what a call leaves behind: whether it raised, the list it returned, and
\* the caller's offer_ids after it
seller_create_stocks(watch_remnants, offer_ids) ==
    LET r == stocks_loop(watch_remnants, 1, <<>>, offer_ids)
    IN IF r.raised
       THEN [raised |-> TRUE, stocks |-> <<>>, offer_ids |-> r.offer_ids]
       ELSE [raised |-> FALSE,
             stocks |->
                 [k \in 1..Len(r.matched) |->
                     [offer_id |-> r.matched[k][1],
                      stock |-> r.matched[k][2]]]
                 \o [k \in 1..Len(r.offer_ids) |->
                     [offer_id |-> r.offer_ids[k], stock |-> 0]],
             offer_ids |-> r.offer_ids]

market_stock(sku, warehouse_id, count, date) ==
    [sku |-> sku, warehouseId |-> warehouse_id,
     items |-> <<[count |-> count, type |-> "FIT", updatedAt |-> date]>>]

market_create_stocks(watch_remnants, offer_ids, warehouse_id, date) ==
    LET r == stocks_loop(watch_remnants, 1, <<>>, offer_ids)
    IN IF r.raised
       THEN [raised |-> TRUE, stocks |-> <<>>, offer_ids |-> r.offer_ids]
       ELSE [raised |-> FALSE,
             stocks |->
                 [k \in 1..Len(r.matched) |->
                     market_stock(r.matched[k][1], warehouse_id,
                                  r.matched[k][2], date)]
                 \o [k \in 1..Len(r.offer_ids) |->
                     market_stock(r.offer_ids[k], warehouse_id, 0, date)],
             offer_ids |-> r.offer_ids]

\* one price cell is enough where prices are not looked at
Rows(qtys, prices) == [code : Codes, qty : qtys, price : prices]

NoCall == [raised |-> FALSE, stocks |-> <<>>, offer_ids |-> <<>>]

RecIdle ==
    /\ r_module = "seller"
    /\ r_rows = <<>>
    /\ r_ids0 = <<>>
    /\ r_ids = <<>>
    /\ r_now = 1
    /\ r_first = NoCall
    /\ r_second = NoCall
    /\ r_pc = "idle"

CallCreateStocks(ids) ==
    IF r_module = "seller" THEN seller_create_stocks(r_rows, ids)
    ELSE market_create_stocks(r_rows, ids, "wh", r_now)

\* stocks = create_stocks(watch_remnants, offer_ids)
FirstCall ==
    /\ r_pc = "first"
    /\ r_first' = CallCreateStocks(r_ids)
    /\ r_ids' = r_first'.offer_ids
    /\ r_pc' = IF r_first'.raised THEN "raised" ELSE "second"
    /\ UNCHANGED <<r_module, r_rows, r_ids0, r_now, r_second>>
    /\ UNCHANGED <<divVars, priceVars, pageVars, mainVars, pairVars>>

\* the wall clock may pass a second between the two calls
Tick ==
    /\ r_pc = "second"
    /\ r_now = 1
    /\ r_now' = 2
    /\ UNCHANGED <<r_module, r_rows, r_ids0, r_ids, r_first, r_second, r_pc>>
    /\ UNCHANGED <<divVars, priceVars, pageVars, mainVars, pairVars>>

\* the same call again, with the same two objects
SecondCall ==
    /\ r_pc = "second"
    /\ r_second' = CallCreateStocks(r_ids)
    /\ r_ids' = r_second'.offer_ids
    /\ r_pc' = IF r_second'.raised THEN "raised" ELSE "done"
    /\ UNCHANGED <<r_module, r_rows, r_ids0, r_now, r_first>>
    /\ UNCHANGED <<divVars, priceVars, pageVars, mainVars, pairVars>>

----------------------------------------------------------------------------
(* get_offer_ids of seller.py (Ozon: last_id, total) and of market.py      *)
(* (Yandex: nextPageToken).  The provider answers a request for the page   *)
(* after the token with the next k items of its catalog, 1 <= k <= MaxPage *)
(* while items are left and an empty page once they are not.  The token it *)
(* hands back is modelled by the number of items served so far; 0 stands   *)
(* for "" and for a missing nextPageToken, which Python takes as false.    *)

PageSizes(left) == IF left = 0 THEN {0} ELSE 1..Min(left, MaxPage)

OzonItems(ids) == [k \in 1..Len(ids) |-> [offer_id |-> ids[k]]]

YandexEntries(ids) == [k \in 1..Len(ids) |-> [offer |-> [shopSku |-> ids[k]]]]

\* if total == len(product_list): break
ozon_stops(total, product_list) == total = Len(product_list)

\* if not page: break
yandex_stops(page) == page = 0

PageIdle ==
    /\ g_module = "seller"
    /\ g_catalog = <<>>
    /\ g_total = 0
    /\ g_cursor = 0
    /\ g_product_list = <<>>
    /\ g_requests = 0
    /\ g_offer_ids = <<>>
    /\ g_pc = "idle"

\* seller.get_offer_ids, one turn of `while True`
OzonPage ==
    /\ g_pc = "loop"
    /\ g_module = "seller"
    /\ g_requests < MaxRequests
    /\ \E k \in PageSizes(Len(g_catalog) - g_cursor) :
          LET some_prod ==
                  [items |-> OzonItems(SubSeq(g_catalog, g_cursor + 1,
                                              g_cursor + k)),
                   total |-> g_total,
                   last_id |-> g_cursor + k]
              product_list == g_product_list \o some_prod.items
          IN /\ g_product_list' = product_list
             /\ g_cursor' = some_prod.last_id
             /\ IF ozon_stops(some_prod.total, product_list)
                THEN /\ g_pc' = "done"
                     /\ g_offer_ids' = [i \in 1..Len(product_list) |->
                                           product_list[i].offer_id]
                ELSE /\ g_pc' = "loop"
                     /\ UNCHANGED g_offer_ids
    /\ g_requests' = g_requests + 1
    /\ UNCHANGED <<g_module, g_catalog, g_total>>
    /\ UNCHANGED <<divVars, priceVars, recVars, mainVars, pairVars>>

\* market.get_offer_ids, one turn of `while True`
YandexPage ==
    /\ g_pc = "loop"
    /\ g_module = "market"
    /\ g_requests < MaxRequests
    /\ \E k \in PageSizes(Len(g_catalog) - g_cursor) :
          LET more == g_cursor + k < Len(g_catalog)
              some_prod ==
                  [offerMappingEntries |->
                       YandexEntries(SubSeq(g_catalog, g_cursor + 1,
                                            g_cursor + k)),
                   paging |-> [nextPageToken |->
                                   IF more THEN g_cursor + k ELSE 0]]
              product_list == g_product_list \o some_prod.offerMappingEntries
              page == some_prod.paging.nextPageToken
          IN /\ g_product_list' = product_list
             /\ g_cursor' = g_cursor + k
             /\ IF yandex_stops(page)
                THEN /\ g_pc' = "done"
                     /\ g_offer_ids' = [i \in 1..Len(product_list) |->
                                           product_list[i].offer.shopSku]
                ELSE /\ g_pc' = "loop"
                     /\ UNCHANGED g_offer_ids
    /\ g_requests' = g_requests + 1
    /\ UNCHANGED <<g_module, g_catalog, g_total>>
    /\ UNCHANGED <<divVars, priceVars, recVars, mainVars, pairVars>>

----------------------------------------------------------------------------
(* create_prices of seller.py and of market.py *)

Matched(watch_remnants, offer_ids) ==
    SelectSeq(watch_remnants, LAMBDA watch : InList(watch.code, offer_ids))

seller_create_prices(watch_remnants, offer_ids) ==
    LET rows == Matched(watch_remnants, offer_ids)
    IN [k \in 1..Len(rows) |->
           [auto_action_enabled |-> "UNKNOWN",
            currency_code |-> "RUB",
            offer_id |-> rows[k].code,
            old_price |-> "0",
            price |-> seller_price_field(rows[k].price).text]]

\* raises the ValueError of int() at the first matched row it meets with
\* no digit before the "."
market_create_prices(watch_remnants, offer_ids) ==
    LET rows == Matched(watch_remnants, offer_ids)
    IN IF \E k \in 1..Len(rows) : market_price_field(rows[k].price).raised
       THEN [raised |-> TRUE, prices |-> <<>>]
       ELSE [raised |-> FALSE,
             prices |-> [k \in 1..Len(rows) |->
                            [id |-> rows[k].code,
                             price |-> [value |->
                                 market_price_field(rows[k].price).value,
                                        currencyId |-> "RUR"]]]]

----------------------------------------------------------------------------
(* create_stocks and create_prices of one module applied to the same rows  *)
(* and to lists holding the same identifiers, as upload_stocks and         *)
(* upload_prices do with the list each fetches                             *)

NoRecords == [raised |-> FALSE, records |-> <<>>]

PairIdle ==
    /\ u_module = "seller"
    /\ u_rows = <<>>
    /\ u_ids = <<>>
    /\ u_stocks = NoRecords
    /\ u_prices = NoRecords
    /\ u_done = {}

\* stocks = create_stocks(watch_remnants, offer_ids)
BuildStocks ==
    /\ "stocks" \notin u_done
    /\ u_module \in {"seller", "market"}
    /\ LET r == IF u_module = "seller"
                THEN seller_create_stocks(u_rows, u_ids)
                ELSE market_create_stocks(u_rows, u_ids, "wh", 1)
       IN u_stocks' = [raised |-> r.raised, records |-> r.stocks]
    /\ u_done' = u_done \cup {"stocks"}
    /\ UNCHANGED <<u_module, u_rows, u_ids, u_prices>>
    /\ UNCHANGED <<divVars, priceVars, recVars, pageVars, mainVars>>

\* prices = create_prices(watch_remnants, offer_ids)
BuildPrices ==
    /\ "prices" \notin u_done
    /\ u_module \in {"seller", "market"}
    /\ u_prices' =
          IF u_module = "seller"
          THEN [raised |-> FALSE,
                records |-> seller_create_prices(u_rows, u_ids)]
          ELSE LET r == market_create_prices(u_rows, u_ids)
               IN [raised |-> r.raised, records |-> r.prices]
    /\ u_done' = u_done \cup {"prices"}
    /\ UNCHANGED <<u_module, u_rows, u_ids, u_stocks>>
    /\ UNCHANGED <<divVars, priceVars, recVars, pageVars, mainVars>>

----------------------------------------------------------------------------
(* seller.main and market.main.  A request to the marketplace or to the    *)
(* vendor's site either succeeds or raises; get_offer_ids is taken here as *)
(* one step that returns the marketplace's list or raises.                 *)

SELLER_STOCKS_BATCH == 100
SELLER_PRICES_BATCH == 900
MARKET_STOCKS_BATCH == 2000
MARKET_PRICES_BATCH == 500

MainCodes == {1, 2}

MainRows == [code : MainCodes, qty : {<<"5">>, <<"x">>}, price : {PriceExample}]

\* the short lists over MainCodes, and one list longer than a stock batch
Catalogs(batch) ==
    SeqsUpTo(MainCodes, MaxCatalog) \cup {[i \in 1..(batch + BulkExtra) |-> i]}

Outcomes == {"ok", "ReadTimeout", "ConnectionError", "HTTPError"}

\* a faulty variant: response.raise_for_status() is not called
raises_without_status_check(outcome) ==
    outcome \in {"ReadTimeout", "ConnectionError"}

\* requests.get/post/put raising, or response.raise_for_status() raising
raises(outcome) == outcome # "ok"

\* the except clauses of main: each prints and main returns
except_clause(error) ==
    CASE error = "ReadTimeout" -> "reported_timeout"
      [] error = "ConnectionError" -> "reported_connection"
      [] OTHER -> "reported_error"

Reported == {"reported_timeout", "reported_connection", "reported_error"}

\* control leaves the try block for the except clause that takes `error`
Except(error) ==
    /\ m_pc' = "end"
    /\ m_result' = except_clause(error)

Warehouse(campaign) == IF campaign = "fbs" THEN "wh_fbs" ELSE "wh_dbs"

MainIdle ==
    /\ m_program = "seller"
    /\ m_sheet = <<>>
    /\ m_catalog = <<>>
    /\ m_pc = "idle"
    /\ m_campaign = "ozon"
    /\ m_watch_remnants = <<>>
    /\ m_offer_ids = <<>>
    /\ m_stocks = <<>>
    /\ m_prices = <<>>
    /\ m_batches = <<>>
    /\ m_sent = <<>>
    /\ m_result = "running"

\* seller.main: offer_ids = get_offer_ids(client_id, seller_token)
SellerGetOfferIds ==
    /\ m_program = "seller"
    /\ m_pc = "get_offer_ids"
    /\ \E outcome \in Outcomes :
          IF raises(outcome)
          THEN Except(outcome) /\ UNCHANGED m_offer_ids
          ELSE /\ m_offer_ids' = m_catalog[m_campaign]
               /\ m_pc' = "download_stock"
               /\ UNCHANGED m_result
    /\ UNCHANGED <<m_program, m_sheet, m_catalog, m_campaign,
                   m_watch_remnants, m_stocks, m_prices, m_batches, m_sent>>
    /\ UNCHANGED <<divVars, priceVars, recVars, pageVars, pairVars>>

\* seller.main: watch_remnants = download_stock()
SellerDownloadStock ==
    /\ m_program = "seller"
    /\ m_pc = "download_stock"
    /\ \E outcome \in Outcomes :
          IF raises(outcome)
          THEN Except(outcome) /\ UNCHANGED m_watch_remnants
          ELSE /\ m_watch_remnants' = m_sheet
               /\ m_pc' = "create_stocks"
               /\ UNCHANGED m_result
    /\ UNCHANGED <<m_program, m_sheet, m_catalog, m_campaign, m_offer_ids,
                   m_stocks, m_prices, m_batches, m_sent>>
    /\ UNCHANGED <<divVars, priceVars, recVars, pageVars, pairVars>>

\* seller.main: stocks = create_stocks(watch_remnants, offer_ids), and the
\* list(divide(stocks, 100)) the for statement then walks
SellerCreateStocks ==
    /\ m_program = "seller"
    /\ m_pc = "create_stocks"
    /\ LET r == seller_create_stocks(m_watch_remnants, m_offer_ids)
       IN /\ m_offer_ids' = r.offer_ids
          /\ IF r.raised
             THEN Except("ValueError") /\ UNCHANGED <<m_stocks, m_batches>>
             ELSE /\ m_stocks' = r.stocks
                  /\ m_batches' = divide(r.stocks, SELLER_STOCKS_BATCH).chunks
                  /\ m_pc' = "update_stocks"
                  /\ UNCHANGED m_result
    /\ UNCHANGED <<m_program, m_sheet, m_catalog, m_campaign,
                   m_watch_remnants, m_prices, m_sent>>
    /\ UNCHANGED <<divVars, priceVars, recVars, pageVars, pairVars>>

\* seller.main: update_stocks(some_stock, client_id, seller_token)
SellerUpdateStocks ==
    /\ m_program = "seller"
    /\ m_pc = "update_stocks"
    /\ m_batches # <<>>
    /\ \E outcome \in Outcomes :
          /\ m_sent' = Append(m_sent, [op |-> "update_stocks",
                                       campaign |-> m_campaign,
                                       batch |-> Head(m_batches),
                                       outcome |-> outcome])
          /\ IF raises(outcome)
             THEN Except(outcome) /\ UNCHANGED m_batches
             ELSE /\ m_batches' = Tail(m_batches)
                  /\ UNCHANGED <<m_pc, m_result>>
    /\ UNCHANGED <<m_program, m_sheet, m_catalog, m_campaign,
                   m_watch_remnants, m_offer_ids, m_stocks, m_prices>>
    /\ UNCHANGED <<divVars, priceVars, recVars, pageVars, pairVars>>

\* seller.main: prices = create_prices(watch_remnants, offer_ids), once the
\* stock loop is through, and the list(divide(prices, 900))
SellerCreatePrices ==
    /\ m_program = "seller"
    /\ m_pc = "update_stocks"
    /\ m_batches = <<>>
    /\ m_prices' = seller_create_prices(m_watch_remnants, m_offer_ids)
    /\ m_batches' = divide(m_prices', SELLER_PRICES_BATCH).chunks
    /\ m_pc' = "update_price"
    /\ UNCHANGED <<m_program, m_sheet, m_catalog, m_campaign,
                   m_watch_remnants, m_offer_ids, m_stocks, m_sent, m_result>>
    /\ UNCHANGED <<divVars, priceVars, recVars, pageVars, pairVars>>

\* seller.main: update_price(some_price, client_id, seller_token)
SellerUpdatePrice ==
    /\ m_program = "seller"
    /\ m_pc = "update_price"
    /\ m_batches # <<>>
    /\ \E outcome \in Outcomes :
          /\ m_sent' = Append(m_sent, [op |-> "update_price",
                                       campaign |-> m_campaign,
                                       batch |-> Head(m_batches),
                                       outcome |-> outcome])
          /\ IF raises(outcome)
             THEN Except(outcome) /\ UNCHANGED m_batches
             ELSE /\ m_batches' = Tail(m_batches)
                  /\ UNCHANGED <<m_pc, m_result>>
    /\ UNCHANGED <<m_program, m_sheet, m_catalog, m_campaign,
                   m_watch_remnants, m_offer_ids, m_stocks, m_prices>>
    /\ UNCHANGED <<divVars, priceVars, recVars, pageVars, pairVars>>

\* seller.main: the price loop is through and main returns
SellerReturn ==
    /\ m_program = "seller"
    /\ m_pc = "update_price"
    /\ m_batches = <<>>
    /\ m_pc' = "end"
    /\ m_result' = "returned"
    /\ UNCHANGED <<m_program, m_sheet, m_catalog, m_campaign,
                   m_watch_remnants, m_offer_ids, m_stocks, m_prices,
                   m_batches, m_sent>>
    /\ UNCHANGED <<divVars, priceVars, recVars, pageVars, pairVars>>

\* market.main: watch_remnants = download_stock(), ahead of the try block
MarketDownloadStock ==
    /\ m_program = "market"
    /\ m_pc = "download_stock"
    /\ \E outcome \in Outcomes :
          IF raises(outcome)
          THEN /\ m_pc' = "end"
               /\ m_result' = "propagated"
               /\ UNCHANGED m_watch_remnants
          ELSE /\ m_watch_remnants' = m_sheet
               /\ m_pc' = "get_offer_ids"
               /\ UNCHANGED m_result
    /\ UNCHANGED <<m_program, m_sheet, m_catalog, m_campaign, m_offer_ids,
                   m_stocks, m_prices, m_batches, m_sent>>
    /\ UNCHANGED <<divVars, priceVars, recVars, pageVars, pairVars>>

\* market.main: offer_ids = get_offer_ids(campaign_..._id, market_token)
MarketGetOfferIds ==
    /\ m_program = "market"
    /\ m_pc = "get_offer_ids"
    /\ \E outcome \in Outcomes :
          IF raises(outcome)
          THEN Except(outcome) /\ UNCHANGED m_offer_ids
          ELSE /\ m_offer_ids' = m_catalog[m_campaign]
               /\ m_pc' = "create_stocks"
               /\ UNCHANGED m_result
    /\ UNCHANGED <<m_program, m_sheet, m_catalog, m_campaign,
                   m_watch_remnants, m_stocks, m_prices, m_batches, m_sent>>
    /\ UNCHANGED <<divVars, priceVars, recVars, pageVars, pairVars>>

\* market.main: stocks = create_stocks(watch_remnants, offer_ids,
\* warehouse_..._id), and the list(divide(stocks, 2000))
MarketCreateStocks ==
    /\ m_program = "market"
    /\ m_pc = "create_stocks"
    /\ LET r == market_create_stocks(m_watch_remnants, m_offer_ids,
                                     Warehouse(m_campaign), 1)
       IN /\ m_offer_ids' = r.offer_ids
          /\ IF r.raised
             THEN Except("ValueError") /\ UNCHANGED <<m_stocks, m_batches>>
             ELSE /\ m_stocks' = r.stocks
                  /\ m_batches' = divide(r.stocks, MARKET_STOCKS_BATCH).chunks
                  /\ m_pc' = "update_stocks"
                  /\ UNCHANGED m_result
    /\ UNCHANGED <<m_program, m_sheet, m_catalog, m_campaign,
                   m_watch_remnants, m_prices, m_sent>>
    /\ UNCHANGED <<divVars, priceVars, recVars, pageVars, pairVars>>

\* market.main: update_stocks(some_stock, campaign_..._id, market_token)
MarketUpdateStocks ==
    /\ m_program = "market"
    /\ m_pc = "update_stocks"
    /\ m_batches # <<>>
    /\ \E outcome \in Outcomes :
          /\ m_sent' = Append(m_sent, [op |-> "update_stocks",
                                       campaign |-> m_campaign,
                                       batch |-> Head(m_batches),
                                       outcome |-> outcome])
          /\ IF raises(outcome)
             THEN Except(outcome) /\ UNCHANGED m_batches
             ELSE /\ m_batches' = Tail(m_batches)
                  /\ UNCHANGED <<m_pc, m_result>>
    /\ UNCHANGED <<m_program, m_sheet, m_catalog, m_campaign,
                   m_watch_remnants, m_offer_ids, m_stocks, m_prices>>
    /\ UNCHANGED <<divVars, priceVars, recVars, pageVars, pairVars>>

\* market.main: upload_prices(watch_remnants, campaign_..._id, market_token).
\* upload_prices is an `async def` and main does not await it: the call
\* builds a coroutine object and runs none of its body, so no identifier is
\* fetched, no price record built and update_price not called.  Main goes
\* on to the DBS campaign, or returns after it.
MarketUploadPrices ==
    /\ m_program = "market"
    /\ m_pc = "update_stocks"
    /\ m_batches = <<>>
    /\ IF m_campaign = "fbs"
       THEN /\ m_campaign' = "dbs"
            /\ m_pc' = "get_offer_ids"
            /\ UNCHANGED m_result
       ELSE /\ m_pc' = "end"
            /\ m_result' = "returned"
            /\ UNCHANGED m_campaign
    /\ UNCHANGED <<m_program, m_sheet, m_catalog, m_watch_remnants,
                   m_offer_ids, m_stocks, m_prices, m_batches, m_sent>>
    /\ UNCHANGED <<divVars, priceVars, recVars, pageVars, pairVars>>

----------------------------------------------------------------------------
(* Specifications *)

InitDivide ==
    /\ d_lst \in SeqsUpTo(DivItems, MaxLen)
    /\ d_n \in (-MaxN)..MaxN
    /\ d_out = [raised |-> FALSE, chunks |-> <<>>]
    /\ d_pc = "call"
    /\ PriceIdle
    /\ RecIdle
    /\ PageIdle
    /\ MainIdle
    /\ PairIdle

SpecDivide == InitDivide /\ [][ConsumeDivide]_vars

InitPrice ==
    /\ p_module \in {"seller", "market"}
    /\ p_text \in PriceTexts
    /\ p_out = NoPrice
    /\ p_pc = "call"
    /\ DivIdle
    /\ RecIdle
    /\ PageIdle
    /\ MainIdle
    /\ PairIdle

SpecPrice == InitPrice /\ [][BuildPrice]_vars

InitReconcile ==
    /\ r_module \in {"seller", "market"}
    /\ r_rows \in SeqsUpTo(Rows(QtyTexts, {<<"5">>}), MaxRows)
    /\ r_ids0 \in SeqsUpTo(Codes, MaxIds)
    /\ r_ids = r_ids0
    /\ r_now = 1
    /\ r_first = NoCall
    /\ r_second = NoCall
    /\ r_pc = "first"
    /\ DivIdle
    /\ PriceIdle
    /\ PageIdle
    /\ MainIdle
    /\ PairIdle

NextReconcile == FirstCall \/ Tick \/ SecondCall

SpecReconcile == InitReconcile /\ [][NextReconcile]_vars

\* Ozon's reported total is any count from 0 to one more than the catalog
InitPaging ==
    /\ g_module \in {"seller", "market"}
    /\ g_catalog \in SeqsUpTo(Codes, MaxIds)
    /\ g_total \in IF g_module = "seller" THEN 0..(Len(g_catalog) + 1) ELSE {0}
    /\ g_cursor = 0
    /\ g_product_list = <<>>
    /\ g_requests = 0
    /\ g_offer_ids = <<>>
    /\ g_pc = "loop"
    /\ DivIdle
    /\ PriceIdle
    /\ RecIdle
    /\ MainIdle
    /\ PairIdle

NextPaging == OzonPage \/ YandexPage

SpecPaging == InitPaging /\ [][NextPaging]_vars

Init ==
    /\ m_program \in {"seller", "market"}
    /\ m_sheet \in SeqsUpTo(MainRows, MaxSheet)
    /\ m_catalog \in IF m_program = "seller"
                     THEN [{"ozon"} -> Catalogs(SELLER_STOCKS_BATCH)]
                     ELSE [{"fbs", "dbs"} -> Catalogs(MARKET_STOCKS_BATCH)]
    /\ m_pc = IF m_program = "seller" THEN "get_offer_ids"
              ELSE "download_stock"
    /\ m_campaign = IF m_program = "seller" THEN "ozon" ELSE "fbs"
    /\ m_watch_remnants = <<>>
    /\ m_offer_ids = <<>>
    /\ m_stocks = <<>>
    /\ m_prices = <<>>
    /\ m_batches = <<>>
    /\ m_sent = <<>>
    /\ m_result = "running"
    /\ DivIdle
    /\ PriceIdle
    /\ RecIdle
    /\ PageIdle
    /\ PairIdle

Next ==
    \/ SellerGetOfferIds
    \/ SellerDownloadStock
    \/ SellerCreateStocks
    \/ SellerUpdateStocks
    \/ SellerCreatePrices
    \/ SellerUpdatePrice
    \/ SellerReturn
    \/ MarketDownloadStock
    \/ MarketGetOfferIds
    \/ MarketCreateStocks
    \/ MarketUpdateStocks
    \/ MarketUploadPrices

Spec == Init /\ [][Next]_vars

InitPair ==
    /\ u_module \in {"seller", "market"}
    /\ u_rows \in SeqsUpTo(Rows({<<"5">>, GT10}, {<<"5">>, <<"p">>}), MaxRows)
    /\ u_ids \in SeqsUpTo(Codes, MaxIds)
    /\ u_stocks = NoRecords
    /\ u_prices = NoRecords
    /\ u_done = {}
    /\ DivIdle
    /\ PriceIdle
    /\ RecIdle
    /\ PageIdle
    /\ MainIdle

NextPair == BuildStocks \/ BuildPrices

SpecPair == InitPair /\ [][NextPair]_vars

----------------------------------------------------------------------------
(* Claims about divide *)

RECURSIVE Flatten(_)
Flatten(chunks) ==
    IF chunks = <<>> THEN <<>> ELSE Head(chunks) \o Flatten(Tail(chunks))

\* C4: for n > 0, list(divide(lst, n)) returns normally; its slices,
\* concatenated in order, give lst back; every slice holds between 1 and n
\* items, every slice but the last holds exactly n, and an empty lst gives
\* no slice.
C4_DividePartitions ==
    (d_pc \in {"returned", "raised"} /\ d_n > 0) =>
        /\ d_pc = "returned"
        /\ Flatten(d_out.chunks) = d_lst
        /\ \A k \in 1..Len(d_out.chunks) :
              /\ Len(d_out.chunks[k]) >= 1
              /\ Len(d_out.chunks[k]) <= d_n
              /\ (k < Len(d_out.chunks) => Len(d_out.chunks[k]) = d_n)
        /\ (d_lst = <<>> => d_out.chunks = <<>>)

\* divide([1, 2, 1], 2) has returned [[1, 2], [1]]
C4_Witness ==
    /\ d_pc = "returned"
    /\ d_lst = <<1, 2, 1>>
    /\ d_n = 2
    /\ d_out.chunks = << <<1, 2>>, <<1>> >>

\* C5: for n <= 0, consuming divide(lst, n) raises and has yielded no
\* batch; it never returns normally.
C5_NonPositiveRaises ==
    (d_pc \in {"returned", "raised"} /\ d_n <= 0) =>
        (d_pc = "raised" /\ d_out.chunks = <<>>)

----------------------------------------------------------------------------
(* Claims about price normalisation *)

\* the digit characters met before the first ".", scanning left to right
RECURSIVE DigitsBeforeDot(_)
DigitsBeforeDot(text) ==
    IF text = <<>> \/ Head(text) = "." THEN <<>>
    ELSE IF Head(text) \in Digits
         THEN <<Head(text)>> \o DigitsBeforeDot(Tail(text))
         ELSE DigitsBeforeDot(Tail(text))

\* the number a run of digits writes, most significant digit first
RECURSIVE Horner(_, _)
Horner(acc, digits) ==
    IF digits = <<>> THEN acc
    ELSE Horner(10 * acc + DigitVal(Head(digits)), Tail(digits))

\* C9 as stated: in seller.py and in market.py alike the price is the
\* number written by the digits before the first ".", and a text with no
\* such digit gives an empty/zero value without an error.
C9_NeverRaises ==
    (p_pc \in {"returned", "raised"}) =>
        /\ ~p_out.raised
        /\ p_module = "seller" => p_out.text = DigitsBeforeDot(p_text)
        /\ p_module = "market" =>
              p_out.value = Horner(0, DigitsBeforeDot(p_text))

\* C9 amended: seller.create_prices never raises and gives the digits
\* before the first "." as text (the empty text when there is none);
\* market.create_prices gives the number those digits write, and raises
\* exactly when there is no digit before the first ".".
C9_PriceNormalized ==
    (p_pc \in {"returned", "raised"}) =>
        /\ p_module = "seller" =>
              (~p_out.raised /\ p_out.text = DigitsBeforeDot(p_text))
        /\ p_module = "market" =>
              /\ p_out.raised <=> (DigitsBeforeDot(p_text) = <<>>)
              /\ ~p_out.raised =>
                    p_out.value = Horner(0, DigitsBeforeDot(p_text))

\* market.create_prices has priced "5'990.00 руб." at 5990
C9_Witness ==
    /\ p_pc = "returned"
    /\ p_module = "market"
    /\ p_text = PriceExample
    /\ p_out.value = 5990

----------------------------------------------------------------------------
(* Claims about create_stocks *)

\* the identifier and the quantity a stock record carries
StockId(rec) == IF r_module = "seller" THEN rec.offer_id ELSE rec.sku

StockQty(rec) ==
    IF r_module = "seller" THEN rec.stock ELSE rec.items[1].count

Occurrences(lst, x) == Cardinality({i \in 1..Len(lst) : lst[i] = x})

\* the first call has returned (it did not raise)
FirstReturned ==
    r_pc \in {"second", "done"} \/ (r_pc = "raised" /\ ~r_first.raised)

\* C1: the identifiers of the records create_stocks returns are exactly
\* those of offer_ids when the call started: each of them is carried by
\* exactly one record, and no record carries any other identifier.
C1_EachIdOnce ==
    FirstReturned =>
        \A id \in Codes :
            Cardinality({k \in 1..Len(r_first.stocks) :
                            StockId(r_first.stocks[k]) = id})
            = (IF InList(id, r_ids0) THEN 1 ELSE 0)

\* a stock record with its timestamp left out
Undated(rec) == <<StockId(rec), StockQty(rec)>>

\* C2: create_stocks leaves the caller's offer_ids as it was, and a second
\* call with the same rows and the same list returns the same records as
\* the first (timestamps aside).
C2_Repeatable ==
    /\ FirstReturned => r_ids = r_ids0
    /\ (r_pc = "done") =>
          [k \in 1..Len(r_first.stocks) |-> Undated(r_first.stocks[k])]
          = [k \in 1..Len(r_second.stocks) |-> Undated(r_second.stocks[k])]

DuplicateFree(lst) == \A id \in Codes : Occurrences(lst, id) <= 1

\* the quantity the sheet's cell text stands for
CellQuantity(text) ==
    IF text = GT10 THEN 100 ELSE IF text = ONE THEN 0
    ELSE Horner(0, text)

RowsWith(id) == {i \in 1..Len(r_rows) : r_rows[i].code = id}

FirstRowWith(id) == CHOOSE i \in RowsWith(id) : \A j \in RowsWith(id) : i <= j

\* C6: with a duplicate-free offer_ids, every identifier of offer_ids has a
\* record; a record's quantity is the one of the first row with its
\* identifier (100 for ">10", 0 for "1", else the cell's integer), or 0 when
\* no row has it; and a row whose code is not in offer_ids has no record.
C6_Quantities ==
    (FirstReturned /\ DuplicateFree(r_ids0)) =>
        /\ \A id \in Codes :
              InList(id, r_ids0) <=>
                  \E k \in 1..Len(r_first.stocks) :
                      StockId(r_first.stocks[k]) = id
        /\ \A k \in 1..Len(r_first.stocks) :
              LET id == StockId(r_first.stocks[k])
              IN StockQty(r_first.stocks[k])
                 = (IF RowsWith(id) = {} THEN 0
                    ELSE CellQuantity(r_rows[FirstRowWith(id)].qty))

\* two rows for identifier 1 (">10", then "1"), identifier 2 without a row
C6_Witness ==
    /\ r_pc = "second"
    /\ r_module = "market"
    /\ r_ids0 = <<2, 1>>
    /\ Len(r_rows) = 2
    /\ r_rows[1].code = 1 /\ r_rows[1].qty = GT10
    /\ r_rows[2].code = 1 /\ r_rows[2].qty = ONE
    /\ Len(r_first.stocks) = 2
    /\ StockQty(r_first.stocks[1]) = 100
    /\ StockQty(r_first.stocks[2]) = 0

----------------------------------------------------------------------------
(* Claims about get_offer_ids *)

\* C10: get_offer_ids stops as soon as the provider has returned all its
\* items, whatever total it reported and also after an empty page, and it
\* returns the catalog's identifiers, each once, in page order.
C10_StopsWhenExhausted ==
    /\ (g_requests > 0 /\ g_cursor = Len(g_catalog)) => g_pc = "done"
    /\ (g_pc = "done") => g_offer_ids = g_catalog

\* C10, Yandex half: market.get_offer_ids alone does meet the statement
C10_YandexStopsWhenExhausted ==
    (g_module = "market") => C10_StopsWhenExhausted

----------------------------------------------------------------------------
(* Claims about a run of main *)

\* the records of the batches `op` was called with for `campaign`, in order
SentRecords(op, campaign) ==
    LET calls == SelectSeq(m_sent, LAMBDA call :
                     call.op = op /\ call.campaign = campaign)
    IN Flatten([k \in 1..Len(calls) |-> calls[k].batch])

\* C3: when every request of a seller.main run succeeds, the price records
\* submitted are one for each sheet row whose code is in the identifier
\* list get_offer_ids fetched at the start of the run, in row order, and
\* none besides.
C3_PricesCoverSnapshot ==
    (m_program = "seller" /\ m_result = "returned") =>
        LET sent == SentRecords("update_price", "ozon")
            rows == Matched(m_sheet, m_catalog["ozon"])
        IN [k \in 1..Len(sent) |-> sent[k].offer_id]
           = [k \in 1..Len(rows) |-> rows[k].code]

\* what reconciliation yields for a campaign of the run: the records main
\* built (seller.main), or those create_stocks and upload_prices build from
\* the sheet and the campaign's identifier list (market.main)
ProducedStocks(campaign) ==
    IF m_program = "seller" THEN m_stocks
    ELSE market_create_stocks(m_sheet, m_catalog[campaign],
                              Warehouse(campaign), 1).stocks

ProducedPrices(campaign) ==
    IF m_program = "seller" THEN m_prices
    ELSE market_create_prices(m_sheet, m_catalog[campaign]).prices

BatchLimit(op) ==
    IF m_program = "seller"
    THEN (IF op = "update_stocks" THEN SELLER_STOCKS_BATCH
          ELSE SELLER_PRICES_BATCH)
    ELSE (IF op = "update_stocks" THEN MARKET_STOCKS_BATCH
          ELSE MARKET_PRICES_BATCH)

\* C7: when every request of a run succeeds, each marketplace of the run
\* has had all its stock records and then all its price records submitted,
\* each once and in order, in batches no larger than the limit.
C7_AllRecordsSubmitted ==
    (m_result = "returned") =>
        /\ \A c \in DOMAIN m_catalog :
              /\ SentRecords("update_stocks", c) = ProducedStocks(c)
              /\ SentRecords("update_price", c) = ProducedPrices(c)
        /\ \A j, k \in 1..Len(m_sent) :
              (/\ m_sent[j].campaign = m_sent[k].campaign
               /\ m_sent[j].op = "update_stocks"
               /\ m_sent[k].op = "update_price") => j < k
        /\ \A k \in 1..Len(m_sent) :
              Len(m_sent[k].batch) <= BatchLimit(m_sent[k].op)

\* C8: a failed update_stocks / update_price call is the last one of the
\* run (no later batch, no retry), and the run has ended in one of main's
\* except clauses, not with an exception leaving main.
C8_FailFast ==
    \A k \in 1..Len(m_sent) :
        m_sent[k].outcome # "ok" =>
            /\ k = Len(m_sent)
            /\ m_pc = "end"
            /\ m_result \in Reported

\* the first of two stock batches was rejected; the second was never sent
C8_Witness ==
    /\ m_program = "seller"
    /\ Len(m_sent) = 1
    /\ m_sent[1].outcome = "HTTPError"
    /\ Len(m_sent[1].batch) = SELLER_STOCKS_BATCH
    /\ Len(m_batches) = 2
    /\ m_result = "reported_error"

----------------------------------------------------------------------------
(* Claims about create_stocks and create_prices on one snapshot *)

PairStockId(rec) == IF u_module = "seller" THEN rec.offer_id ELSE rec.sku

PairPriceId(rec) == IF u_module = "seller" THEN rec.offer_id ELSE rec.id

\* how many of `records` carry `id`, read with `Id`
Carrying(records, id, Id(_)) ==
    Cardinality({k \in 1..Len(records) : Id(records[k]) = id})

\* both calls have been made and both returned
PairReturned ==
    /\ u_done = {"stocks", "prices"}
    /\ ~u_stocks.raised
    /\ ~u_prices.raised

\* C11: with a duplicate-free offer_ids, create_stocks returns at most one
\* stock record and create_prices at most one price record for an
\* identifier, however many rows share its code, and every identifier with
\* a price record has a stock record.
C11_ConsumedOnce ==
    (PairReturned /\ \A id \in Codes : Occurrences(u_ids, id) <= 1) =>
        \A id \in Codes :
            /\ Carrying(u_stocks.records, id, PairStockId) <= 1
            /\ Carrying(u_prices.records, id, PairPriceId) <= 1
            /\ Carrying(u_prices.records, id, PairPriceId) > 0 =>
                  Carrying(u_stocks.records, id, PairStockId) > 0

----------------------------------------------------------------------------
(* Claims about the two campaigns of market.main *)

\* no quantity cell of the sheet makes create_stocks raise, so that only a
\* request can fail
SheetParses ==
    \A i \in 1..Len(m_sheet) : ~stock_count(m_sheet[i].qty).raised

\* C12: a failed request of the FBS campaign ends that campaign's run only:
\* market.main does not end before the DBS campaign has had its run, and the
\* DBS stock records are built from the list fetched for DBS, not from the
\* one the FBS run fetched and emptied.
C12_CampaignsIndependent ==
    (m_program = "market" /\ SheetParses) =>
        /\ (m_pc = "end" /\ m_result \in Reported) => m_campaign = "dbs"
        /\ (m_campaign = "dbs" /\ m_pc = "update_stocks") =>
              m_stocks = market_create_stocks(m_watch_remnants,
                                              m_catalog["dbs"],
                                              Warehouse("dbs"), 1).stocks

====
